---------------------------- MODULE Spec2Model ----------------------------
(***************************************************************************)
(* ECGHeartRhythmAnalysis: the preprocessing pipeline (bandpass filter,    *)
(* min-max normalisation, fixed-window segmentation) and the batch feature *)
(* extractor, as state machines.                                           *)
(*                                                                         *)
(* Each component has one state variable, a record whose fields carry the  *)
(* names of the locals and arguments of the Python function it models, and *)
(* one specification (SpecSeg, SpecNorm, SpecFilt, SpecPre, SpecFeat) that *)
(* starts the component on every input of a bounded set and leaves the     *)
(* other components idle.                                                  *)
(*                                                                         *)
(* Real numbers are exact rationals <<n, d>> in lowest terms with d > 0;   *)
(* the IEEE values numpy produces on a division by zero are <<0, 0>> (NaN) *)
(* and <<1, 0>>, <<-1, 0>> (+Inf, -Inf). Rounding is not modelled.         *)
(***************************************************************************)
EXTENDS Integers, Sequences, FiniteSets, TLC

VARIABLES seg, norm, filt, pre, feat

vars == <<seg, norm, filt, pre, feat>>

Idle == [pc |-> "idle"]

-----------------------------------------------------------------------------
(* Bounds of the model *)

\* longest signal handed to segment_ecg
MaxLen == 5
\* largest window_size and overlap_size handed to segment_ecg
MaxWin == 3
\* longest signal handed to normalize_ecg
MaxNormLen == 3
\* most recordings in a batch handed to build_features
MaxBatch == 3
\* longest signal handed to the bandpass filters
MaxFiltLen == 2
\* longest recording and most recordings handed to ECGPreprocessor.transform
MaxPreLen == 2
MaxPreBatch == 2
\* samples handed to normalize_ecg are k/2 for k in -1 .. MaxSampleNum
MaxSampleNum == 3

-----------------------------------------------------------------------------
(* Exact arithmetic on float values *)

Abs(x) == IF x < 0 THEN -x ELSE x

Sgn(x) == IF x < 0 THEN -1 ELSE IF x > 0 THEN 1 ELSE 0

RECURSIVE GCD(_, _)
GCD(a, b) == IF b = 0 THEN a ELSE GCD(b, a % b)

\* the value n/d: lowest terms, positive denominator; x/0 is NaN or +-Inf
Rat(n, d) ==
    IF d = 0 THEN <<Sgn(n), 0>>
    ELSE LET g == GCD(Abs(n), Abs(d))
         IN  <<(Sgn(d) * n) \div g, Abs(d) \div g>>

NaN == <<0, 0>>

IsNaN(a) == a = NaN

IsInf(a) == a[2] = 0 /\ a[1] # 0

IsFinite(a) == a[2] > 0

RNeg(a) == <<-a[1], a[2]>>

RAdd(a, b) ==
    IF IsNaN(a) \/ IsNaN(b) THEN NaN
    ELSE IF IsInf(a) /\ IsInf(b) THEN (IF a = b THEN a ELSE NaN)
    ELSE IF IsInf(a) THEN a
    ELSE IF IsInf(b) THEN b
    ELSE Rat(a[1] * b[2] + b[1] * a[2], a[2] * b[2])

RSub(a, b) == RAdd(a, RNeg(b))

RMul(a, b) ==
    IF IsNaN(a) \/ IsNaN(b) THEN NaN
    ELSE IF IsInf(a) \/ IsInf(b) THEN <<Sgn(a[1]) * Sgn(b[1]), 0>>
    ELSE Rat(a[1] * b[1], a[2] * b[2])

RDiv(a, b) ==
    IF IsNaN(a) \/ IsNaN(b) THEN NaN
    ELSE IF IsInf(b) THEN (IF IsInf(a) THEN NaN ELSE <<0, 1>>)
    ELSE IF IsInf(a) THEN <<a[1] * (IF b[1] < 0 THEN -1 ELSE 1), 0>>
    ELSE Rat(a[1] * b[2], a[2] * b[1])

\* a < b; FALSE whenever a NaN is compared, as in IEEE arithmetic
RLess(a, b) ==
    /\ ~IsNaN(a)
    /\ ~IsNaN(b)
    /\ a # b
    /\ IF IsInf(a) THEN a[1] < 0
       ELSE IF IsInf(b) THEN b[1] > 0
       ELSE a[1] * b[2] < b[1] * a[2]

RLeq(a, b) == (a = b /\ ~IsNaN(a)) \/ RLess(a, b)

Range(s) == {s[i] : i \in 1..Len(s)}

\* np.min and np.max of a non-empty array: NaN when the array holds a NaN
NpMin(signal) ==
    IF NaN \in Range(signal) THEN NaN
    ELSE CHOOSE m \in Range(signal) : \A x \in Range(signal) : RLeq(m, x)

NpMax(signal) ==
    IF NaN \in Range(signal) THEN NaN
    ELSE CHOOSE m \in Range(signal) : \A x \in Range(signal) : RLeq(x, m)

\* all sequences over S of length lo .. hi
SeqsOf(S, lo, hi) == UNION {[1..n -> S] : n \in lo..hi}

-----------------------------------------------------------------------------
(* NormalizeECG.normalize_ecg *)

\* mutant: the denominator is the maximum, not the range
NormRangeMax(min_val, max_val) == max_val

\* the denominator of line 100
NormRange(min_val, max_val) == RSub(max_val, min_val)

\* the call's outcome: np.min raises ValueError on a zero-size array; the
\* division of line 100 is numpy's, elementwise, and only warns on x/0
normalize_ecg(signal) ==
    IF signal = <<>>
    THEN [status |-> "raised", error |-> "ValueError", value |-> <<>>]
    ELSE LET min_val == NpMin(signal)
             max_val == NpMax(signal)
             normalized_signal ==
                 [i \in 1..Len(signal) |->
                     RDiv(RSub(signal[i], min_val),
                          NormRange(min_val, max_val))]
         IN  [status |-> "returned", error |-> "none",
              value |-> normalized_signal]

NormSamples == {Rat(k, 2) : k \in -1..MaxSampleNum}

NormInputs == SeqsOf(NormSamples, 0, MaxNormLen)

NormStart ==
    \E s \in NormInputs :
        norm = [pc |-> "called", orig |-> s, signal |-> s, calls |-> 0,
                out |-> [status |-> "pending", error |-> "none",
                         value |-> <<>>]]

\* NormalizeECG.transform: one call of normalize_ecg on the current signal
NormTransform ==
    /\ norm.pc = "called"
    /\ norm' = [norm EXCEPT !.pc = "done",
                            !.calls = @ + 1,
                            !.out = normalize_ecg(norm.signal)]
    /\ UNCHANGED <<seg, filt, pre, feat>>

\* the caller normalises the array the first call returned
NormAgain ==
    /\ norm.pc = "done"
    /\ norm.calls = 1
    /\ norm.out.status = "returned"
    /\ norm' = [norm EXCEPT !.pc = "called",
                            !.signal = norm.out.value,
                            !.out = [status |-> "pending", error |-> "none",
                                     value |-> <<>>]]
    /\ UNCHANGED <<seg, filt, pre, feat>>

NormNext == NormTransform \/ NormAgain

NormInit == NormStart /\ seg = Idle /\ filt = Idle /\ pre = Idle /\ feat = Idle

SpecNorm == NormInit /\ [][NormNext]_vars

-----------------------------------------------------------------------------
(* Claims about normalize_ecg, checked under SpecNorm *)

Zero == <<0, 1>>

One == <<1, 1>>

InUnit(x) == RLeq(Zero, x) /\ RLeq(x, One)

AllFinite(signal) == \A i \in 1..Len(signal) : IsFinite(signal[i])

Flat(signal) == NpMax(signal) = NpMin(signal)

NormFirstCallDone ==
    /\ norm.pc = "done"
    /\ norm.calls = 1
    /\ norm.signal # <<>>

\* C6: normalize_ecg on a flat signal (max == min) fails with an error and
\* returns no array; on a non-flat signal it returns
\* (signal - min) / (max - min) elementwise, every value in [0, 1].
C6_FlatRejected ==
    NormFirstCallDone =>
        IF Flat(norm.signal)
        THEN norm.out.status = "raised"
        ELSE /\ norm.out.status = "returned"
             /\ Len(norm.out.value) = Len(norm.signal)
             /\ \A i \in 1..Len(norm.signal) :
                    /\ norm.out.value[i] =
                           RDiv(RSub(norm.signal[i], NpMin(norm.signal)),
                                RSub(NpMax(norm.signal), NpMin(norm.signal)))
                    /\ InUnit(norm.out.value[i])

\* C10 as stated: every non-flat signal whose samples all lie in [0, 1] is
\* returned unchanged by normalize_ecg.
C10_UnitSignalUnchanged ==
    ( /\ norm.pc = "done"
      /\ norm.signal # <<>>
      /\ ~Flat(norm.signal)
      /\ \A i \in 1..Len(norm.signal) : InUnit(norm.signal[i]) )
        => /\ norm.out.status = "returned"
           /\ norm.out.value = norm.signal

\* C10 as amended: a non-flat signal whose minimum is 0 and whose maximum
\* is 1 is returned unchanged, and so is the output of normalize_ecg on any
\* non-flat signal: normalize_ecg(normalize_ecg(s)) = normalize_ecg(s).
C10_Idempotent ==
    /\ ( /\ norm.pc = "done"
         /\ norm.signal # <<>>
         /\ NpMin(norm.signal) = Zero
         /\ NpMax(norm.signal) = One )
           => /\ norm.out.status = "returned"
              /\ norm.out.value = norm.signal
    /\ ( /\ norm.pc = "done"
         /\ norm.calls = 2
         /\ ~Flat(norm.orig) )
           => /\ norm.out.status = "returned"
              /\ norm.out.value = norm.signal

\* a non-flat signal, changed by the first call, has been normalised twice
C10_Witness ==
    /\ norm.pc = "done"
    /\ norm.calls = 2
    /\ ~Flat(norm.orig)
    /\ norm.signal # norm.orig
    /\ Len(norm.orig) >= 3

-----------------------------------------------------------------------------
(* SegmentECG.segment_ecg *)

\* the loop of segment_ecg is cut off after this many windows; a call with
\* 0 <= overlap_size < window_size never emits more than MaxLen of them
MaxSegs == MaxLen + 2

\* a slice bound as Python resolves it against a sequence of length n
SliceBound(i, n) ==
    IF i < 0 THEN (IF i + n < 0 THEN 0 ELSE i + n)
    ELSE IF i > n THEN n ELSE i

\* signal[start:end]
PySlice(signal, start, end) ==
    SubSeq(signal, SliceBound(start, Len(signal)) + 1,
                   SliceBound(end, Len(signal)))

\* mutant: a window that ends exactly at the end of the signal is dropped
SegCondStrict(end, signal) == end < Len(signal)

\* the loop condition of line 134
SegCond(end, signal) == end <= Len(signal)

\* lines 131-133
SegEnter(signal, window_size, overlap_size) ==
    [pc |-> "loop", signal |-> signal, window_size |-> window_size,
     overlap_size |-> overlap_size, segments |-> <<>>, start |-> 0,
     end |-> window_size]

\* lines 135-138, one pass through the loop body
SegBody(st) ==
    LET start == st.start + st.window_size - st.overlap_size
    IN  [st EXCEPT !.segments = Append(@, PySlice(st.signal, st.start, st.end)),
                   !.start = start,
                   !.end = start + st.window_size]

SegSamples == {0, 1}

SegStart ==
    \E signal \in SeqsOf(SegSamples, 0, MaxLen) :
    \E window_size \in 1..MaxWin :
    \E overlap_size \in 0..MaxWin :
        seg = SegEnter(signal, window_size, overlap_size)

SegIter ==
    /\ seg.pc = "loop"
    /\ SegCond(seg.end, seg.signal)
    /\ Len(seg.segments) < MaxSegs
    /\ seg' = SegBody(seg)
    /\ UNCHANGED <<norm, filt, pre, feat>>

\* line 139
SegReturn ==
    /\ seg.pc = "loop"
    /\ ~SegCond(seg.end, seg.signal)
    /\ seg' = [seg EXCEPT !.pc = "returned"]
    /\ UNCHANGED <<norm, filt, pre, feat>>

SegNext == SegIter \/ SegReturn

SegInit == SegStart /\ norm = Idle /\ filt = Idle /\ pre = Idle /\ feat = Idle

SpecSeg == SegInit /\ [][SegNext]_vars

-----------------------------------------------------------------------------
(* Claims about segment_ecg, checked under SpecSeg *)

SegValidConfig ==
    /\ 0 <= seg.overlap_size
    /\ seg.overlap_size < seg.window_size

SegExpectedCount ==
    IF Len(seg.signal) >= seg.window_size
    THEN (Len(seg.signal) - seg.window_size)
             \div (seg.window_size - seg.overlap_size) + 1
    ELSE 0

\* C1: with 0 <= O < W the call returns floor((L - W) / (W - O)) + 1
\* segments when L >= W and none when L < W; segment k is the full window
\* that starts at (k - 1) * (W - O), and no partial window is emitted.
C1_SegmentCount ==
    SegValidConfig =>
        /\ seg.pc = "loop" /\ SegCond(seg.end, seg.signal)
               => Len(seg.segments) < MaxSegs
        /\ seg.pc = "returned" =>
               /\ Len(seg.segments) = SegExpectedCount
               /\ \A k \in 1..Len(seg.segments) :
                      LET first == (k - 1) * (seg.window_size - seg.overlap_size)
                      IN  /\ Len(seg.segments[k]) = seg.window_size
                          /\ seg.segments[k] =
                                 SubSeq(seg.signal, first + 1,
                                        first + seg.window_size)

\* overlapping windows were emitted and a trailing partial window dropped
C1_Witness ==
    /\ seg.pc = "returned"
    /\ SegValidConfig
    /\ seg.overlap_size > 0
    /\ Len(seg.segments) >= 2
    /\ seg.start < Len(seg.signal)

\* C2: a call with overlap_size >= window_size ends in a configuration
\* error: it neither returns a segment list nor runs the loop.
C2_ConfigurationError ==
    seg.overlap_size >= seg.window_size =>
        /\ seg.pc # "returned"
        /\ seg.segments = <<>>

-----------------------------------------------------------------------------
(* bandpass_filter (src/ecg/ecg_filters.py) and                            *)
(* BandpassFilter.bandpass_filter (src/preprocessing/ecg_preprocessing.py) *)
(* The two functions have the same body. The filter design (butter) and    *)
(* the filtering (sosfiltfilt, lfilter) are SciPy's: the model keeps which *)
(* of them ran and whether it raised, not the filtered samples.            *)

NoError == [type |-> "none", msg |-> ""]

FsTooLowError ==
    [type |-> "ValueError",
     msg |-> "Sampling frequency is too low for the selected high cutoff frequency."]

\* butter rejects critical frequencies outside 0 < Wn < 1
ButterError ==
    [type |-> "ValueError",
     msg |-> "Digital filter critical frequencies must be 0 < Wn < 1"]

\* sosfiltfilt rejects a signal no longer than its padding
PadlenError ==
    [type |-> "ValueError",
     msg |-> "The length of the input vector x must be greater than padlen."]

\* neither branch of lines 58-72 binds fsig
UnboundError ==
    [type |-> "UnboundLocalError",
     msg |-> "local variable 'fsig' referenced before assignment"]

\* the test of ecg_filters.py line 21
bandpass_filter_fs_too_low(fs, high_cut) == fs <= high_cut * 2

\* mutant: the boundary fs == 2 * high_cut is accepted
BandpassFilter_fs_below(fs, high_cut) == fs < high_cut * 2

\* the test of ecg_preprocessing.py line 44
BandpassFilter_fs_too_low(fs, high_cut) == fs <= high_cut * 2

\* lines 47-49: the cutoffs relative to the Nyquist frequency
NyquistRelative(cut, fs) == RDiv(cut, RMul(<<1, 2>>, Rat(fs, 1)))

\* what butter (lines 52-55) may do: it raises on a critical frequency
\* outside (0, 1); on low >= high it raises or not with the SciPy version
ButterOutcomes(low, high) ==
    IF ~(RLess(<<0, 1>>, low) /\ RLess(low, <<1, 1>>)
         /\ RLess(<<0, 1>>, high) /\ RLess(high, <<1, 1>>))
    THEN {"raise"}
    ELSE IF ~RLess(low, high) THEN {"raise", "design"}
    ELSE {"design"}

\* what lines 58-74 may do on an array of num_samples samples: sosfiltfilt
\* raises on a signal no longer than its padding (an empty one always is),
\* lfilter does not; an array that is neither 1-D nor 2-D leaves fsig unbound
ApplyOutcomes(ndim, zero_phase, num_samples) ==
    IF ndim \notin {1, 2} THEN {UnboundError}
    ELSE IF ~zero_phase THEN {NoError}
    ELSE IF num_samples = 0 THEN {PadlenError}
    ELSE {NoError, PadlenError}

FsValues == {50, 80, 81, 200, 300}

HighCutValues == {40, 100}

LowCutValues == {<<1, 2>>, <<0, 1>>, <<50, 1>>}

FiltStart ==
    \E impl \in {"ecg_filters", "BandpassFilter"} :
    \E fs \in FsValues :
    \E high_cut \in HighCutValues :
    \E low_cut \in LowCutValues :
    \E zero_phase \in BOOLEAN :
    \E ndim \in 0..3 :
    \E num_samples \in 0..MaxFiltLen :
        filt = [pc |-> "called", impl |-> impl, fs |-> fs,
                num_samples |-> num_samples,
                low_cut |-> low_cut, high_cut |-> high_cut,
                zero_phase |-> zero_phase, ndim |-> ndim,
                designed |-> FALSE, applied |-> FALSE, error |-> NoError]

FiltChecked(too_low) ==
    IF too_low
    THEN [filt EXCEPT !.pc = "raised", !.error = FsTooLowError]
    ELSE [filt EXCEPT !.pc = "checked"]

\* ecg_filters.py lines 21-22
FiltCheckModule ==
    /\ filt.pc = "called"
    /\ filt.impl = "ecg_filters"
    /\ filt' = FiltChecked(bandpass_filter_fs_too_low(filt.fs, filt.high_cut))
    /\ UNCHANGED <<seg, norm, pre, feat>>

\* ecg_preprocessing.py lines 44-45
FiltCheckClass ==
    /\ filt.pc = "called"
    /\ filt.impl = "BandpassFilter"
    /\ filt' = FiltChecked(BandpassFilter_fs_too_low(filt.fs, filt.high_cut))
    /\ UNCHANGED <<seg, norm, pre, feat>>

\* lines 47-55 of ecg_preprocessing.py, 24-32 of ecg_filters.py
FiltDesign ==
    /\ filt.pc = "checked"
    /\ \E o \in ButterOutcomes(NyquistRelative(filt.low_cut, filt.fs),
                               NyquistRelative(Rat(filt.high_cut, 1), filt.fs)) :
           filt' = IF o = "raise"
                   THEN [filt EXCEPT !.pc = "raised", !.error = ButterError]
                   ELSE [filt EXCEPT !.pc = "designed", !.designed = TRUE]
    /\ UNCHANGED <<seg, norm, pre, feat>>

\* lines 58-74 of ecg_preprocessing.py, 35-51 of ecg_filters.py
FiltApply ==
    /\ filt.pc = "designed"
    /\ \E e \in ApplyOutcomes(filt.ndim, filt.zero_phase, filt.num_samples) :
           filt' = IF e = NoError
                   THEN [filt EXCEPT !.pc = "returned", !.applied = TRUE]
                   ELSE [filt EXCEPT !.pc = "raised", !.error = e,
                                     !.applied = (e = PadlenError)]
    /\ UNCHANGED <<seg, norm, pre, feat>>

FiltNext == FiltCheckModule \/ FiltCheckClass \/ FiltDesign \/ FiltApply

FiltInit == FiltStart /\ seg = Idle /\ norm = Idle /\ pre = Idle /\ feat = Idle

SpecFilt == FiltInit /\ [][FiltNext]_vars

-----------------------------------------------------------------------------
(* Claims about the two bandpass filters, checked under SpecFilt *)

\* C7: both bandpass filters raise the sampling-frequency error before any
\* filter is designed or applied whenever fs <= 2 * high_cut, the boundary
\* fs == 2 * high_cut included, and never raise it when fs > 2 * high_cut.
C7_NyquistValidation ==
    /\ filt.fs <= 2 * filt.high_cut =>
           /\ filt.pc \in {"called", "raised"}
           /\ ~filt.designed
           /\ ~filt.applied
           /\ filt.pc = "raised" => filt.error = FsTooLowError
    /\ filt.fs > 2 * filt.high_cut =>
           /\ filt.error # FsTooLowError
           /\ filt.pc = "raised" => filt.error \in {ButterError, PadlenError, UnboundError}

\* the class's filter has rejected a call on the boundary fs == 2 * high_cut
C7_Witness ==
    /\ filt.impl = "BandpassFilter"
    /\ filt.pc = "raised"
    /\ filt.fs = 2 * filt.high_cut
    /\ filt.error = FsTooLowError

-----------------------------------------------------------------------------
(* ECGFeatureExtractor.extract_features and build_features                 *)
(* R-peak detection and the HRV metrics are NeuroKit's: a recording        *)
(* carries what nk.ecg_process does on it, the R-peaks it finds or the     *)
(* exception it raises. parse_header is the data loader's and yields the   *)
(* recording's sampling rate. Of the features the model keeps RR_mean and  *)
(* Irregularity_index and the names of the columns.                        *)

NkWindowError ==
    [type |-> "ValueError",
     msg |-> "NeuroKit error: the window cannot contain more data points than the time series. Decrease 'scale'."]

NanIntError ==
    [type |-> "ValueError", msg |-> "cannot convert float NaN to integer"]

ZeroDivError == [type |-> "ZeroDivisionError", msg |-> "division by zero"]

OtherValueError ==
    [type |-> "ValueError", msg |-> "array must not contain infs or NaNs"]

IndexError ==
    [type |-> "IndexError", msg |-> "index 0 is out of bounds for axis 0 with size 0"]

KeyboardInterrupt == [type |-> "KeyboardInterrupt", msg |-> ""]

\* the exception classes of the model that derive from Exception
ExceptionTypes ==
    {"ValueError", "ZeroDivisionError", "IndexError", "KeyError"}

\* np.diff
NpDiff(x) == [i \in 1..(Len(x) - 1) |-> RSub(x[i + 1], x[i])]

RECURSIVE RSum(_)
RSum(x) == IF x = <<>> THEN <<0, 1>> ELSE RAdd(x[1], RSum(Tail(x)))

\* np.mean: 0/0 on an empty array
NpMean(x) == RDiv(RSum(x), Rat(Len(x), 1))

RAbs(a) == <<Abs(a[1]), a[2]>>

\* np.sum(np.abs(np.diff(rri)) > 50)
CountOver50(rri) ==
    Cardinality({i \in 1..Len(NpDiff(rri)) :
                    RLess(<<50, 1>>, RAbs(NpDiff(rri)[i]))})

\* line 74: np.diff(info['ECG_R_Peaks']) / fs * 1000
RRIntervals(peaks, fs) ==
    LET p == [i \in 1..Len(peaks) |-> Rat(peaks[i], 1)]
    IN  [i \in 1..Len(NpDiff(p)) |->
            RMul(RDiv(NpDiff(p)[i], Rat(fs, 1)), <<1000, 1>>)]

\* line 78: the count of line 78 over len(rri); numpy yields 0/0 = NaN on
\* an empty rri
IrregularityIndex(rri) == RDiv(Rat(CountOver50(rri), 1), Rat(Len(rri), 1))

HrvColumns ==
    {"HRV_MeanNN", "HRV_SDNN", "HRV_RMSSD", "HRV_SDANN1", "HRV_SDNNI1",
     "HRV_SDANN2", "HRV_SDNNI2", "HRV_SDANN5", "HRV_SDNNI5"}

\* the keys of the dictionary of lines 98-103
FeatureColumns ==
    HrvColumns \cup {"RR_mean", "RR_std", "Irregularity_index", "LF", "HF",
                     "LF_HF_ratio", "Skewness", "Kurtosis"}

\* the columns dropped in line 60
DroppedColumns ==
    {"HRV_SDANN1", "HRV_SDNNI1", "HRV_SDANN2", "HRV_SDNNI2", "HRV_SDANN5",
     "HRV_SDNNI5", "LF", "HF", "LF_HF_ratio"}

\* lines 65-105
extract_features(rec) ==
    IF rec.nk # NoError
    THEN [status |-> "raised", error |-> rec.nk]
    ELSE LET rri == RRIntervals(rec.peaks, rec.fs)
         IN  [status |-> "returned", error |-> NoError,
              value |-> [RR_mean |-> NpMean(rri),
                         Irregularity_index |-> IrregularityIndex(rri),
                         columns |-> FeatureColumns]]

\* mutant: every ValueError skips the recording
HandlerSkipsValueErrors(e) ==
    IF e.type = "ValueError" THEN "continue"
    ELSE IF e.type = "ZeroDivisionError" THEN "continue"
    ELSE IF e.type \in ExceptionTypes THEN "plot_raise"
    ELSE "raise"

\* the except clauses of lines 41-57
ExceptHandler(e) ==
    IF e.type = "ValueError"
    THEN IF e.msg = NkWindowError.msg THEN "continue"
         ELSE IF e.msg = NanIntError.msg THEN "continue"
         ELSE "plot_raise"
    ELSE IF e.type = "ZeroDivisionError" THEN "continue"
    ELSE IF e.type \in ExceptionTypes THEN "plot_raise"
    ELSE "raise"

\* lines 59-60: the table of the feature dictionaries; drop raises KeyError
\* on a column the table does not have
FeatureTable(features) ==
    LET columns == UNION {features[k].columns : k \in 1..Len(features)}
    IN  IF ~(DroppedColumns \subseteq columns)
        THEN [status |-> "raised",
              error |-> [type |-> "KeyError", msg |-> "not found in axis"]]
        ELSE [status |-> "returned", error |-> NoError,
              value |-> [columns |-> columns \ DroppedColumns,
                         rows |-> features]]

PeakLists ==
    {<<100, 300, 520, 700>>, <<100, 300, 500, 700>>, <<100, 300, 510>>,
     <<100, 300>>}

Recordings ==
    {[label |-> "N", fs |-> 200, nk |-> NoError, peaks |-> p] : p \in PeakLists}
    \cup {[label |-> "A", fs |-> 300, nk |-> NoError,
           peaks |-> <<150, 450, 780, 1050>>]}
    \cup {[label |-> "~", fs |-> 300, nk |-> e, peaks |-> <<>>] :
            e \in {NkWindowError, NanIntError, ZeroDivError, OtherValueError,
                   IndexError, KeyboardInterrupt}}

FeatStart ==
    \E dataset \in SeqsOf(Recordings, 0, MaxBatch) :
        feat = [pc |-> "loop", dataset |-> dataset, i |-> 1,
                features |-> <<>>, plotted |-> <<>>, error |-> NoError,
                features_df |-> [columns |-> {}, rows |-> <<>>]]

\* lines 29-57: one pass through the loop of build_features
FeatStep ==
    /\ feat.pc = "loop"
    /\ feat.i <= Len(feat.dataset)
    /\ LET data_dict == feat.dataset[feat.i]
           r == extract_features(data_dict)
           feature_dict == [r.value EXCEPT !.columns = @ \cup {"label"}]
                               @@ [label |-> data_dict.label]
       IN  feat' =
             IF r.status = "returned"
             THEN [feat EXCEPT !.features = Append(@, feature_dict),
                               !.i = @ + 1]
             ELSE IF ExceptHandler(r.error) = "continue"
             THEN [feat EXCEPT !.i = @ + 1]
             ELSE IF ExceptHandler(r.error) = "plot_raise"
             THEN [feat EXCEPT !.pc = "raised", !.error = r.error,
                               !.plotted = Append(@, [patient |-> feat.i,
                                                      label |-> data_dict.label])]
             ELSE [feat EXCEPT !.pc = "raised", !.error = r.error]
    /\ UNCHANGED <<seg, norm, filt, pre>>

\* lines 59-62
FeatFinish ==
    /\ feat.pc = "loop"
    /\ feat.i > Len(feat.dataset)
    /\ LET t == FeatureTable(feat.features)
       IN  feat' = IF t.status = "returned"
                   THEN [feat EXCEPT !.pc = "returned", !.features_df = t.value]
                   ELSE [feat EXCEPT !.pc = "raised", !.error = t.error]
    /\ UNCHANGED <<seg, norm, filt, pre>>

FeatNext == FeatStep \/ FeatFinish

FeatInit == FeatStart /\ seg = Idle /\ norm = Idle /\ filt = Idle /\ pre = Idle

SpecFeat == FeatInit /\ [][FeatNext]_vars

-----------------------------------------------------------------------------
(* Claims about the feature extractor, checked under SpecFeat *)

Succeeds(rec) == rec.nk = NoError

\* the three failures the extractor is to skip
Skippable(rec) ==
    \/ rec.nk = NkWindowError
    \/ rec.nk = NanIntError
    \/ rec.nk.type = "ZeroDivisionError"

Fatal(rec) == ~Succeeds(rec) /\ ~Skippable(rec)

\* the indices of the recordings of the batch that succeed, in order
RECURSIVE SucceedingUpTo(_, _)
SucceedingUpTo(dataset, n) ==
    IF n = 0 THEN <<>>
    ELSE IF Succeeds(dataset[n])
         THEN Append(SucceedingUpTo(dataset, n - 1), n)
         ELSE SucceedingUpTo(dataset, n - 1)

\* C3: on a batch whose recordings each succeed or raise a skippable error,
\* no exception escapes build_features and the table it returns has exactly
\* the succeeding recordings as rows, in their original order.
C3_SkipsAndReturns ==
    ( /\ Len(feat.dataset) >= 1
      /\ \A k \in 1..Len(feat.dataset) :
             Succeeds(feat.dataset[k]) \/ Skippable(feat.dataset[k]) )
        => /\ feat.pc # "raised"
           /\ feat.pc = "returned" =>
                  LET ok == SucceedingUpTo(feat.dataset, Len(feat.dataset))
                  IN  /\ Len(feat.features_df.rows) = Len(ok)
                      /\ \A r \in 1..Len(ok) :
                             LET rec == feat.dataset[ok[r]]
                                 row == feat.features_df.rows[r]
                             IN  /\ row.label = rec.label
                                 /\ row.RR_mean =
                                        NpMean(RRIntervals(rec.peaks, rec.fs))

\* C4: a failure of extract_features other than the three skippable ones
\* aborts the batch at that recording: the exception reaches the caller, no
\* later recording is processed and no table is returned.
C4_FatalAborts ==
    \A k \in 1..Len(feat.dataset) :
        ( /\ Fatal(feat.dataset[k])
          /\ \A j \in 1..(k - 1) : ~Fatal(feat.dataset[j]) )
            => /\ feat.i <= k
               /\ feat.pc # "returned"
               /\ feat.features_df.rows = <<>>
               /\ Len(feat.features) = Len(SucceedingUpTo(feat.dataset, feat.i - 1))
               /\ feat.pc = "raised" =>
                      /\ feat.i = k
                      /\ feat.error = feat.dataset[k].nk

\* a batch aborted at its second recording, with a third one left over
C4_Witness ==
    /\ feat.pc = "raised"
    /\ Len(feat.dataset) = 3
    /\ feat.i = 2
    /\ Succeeds(feat.dataset[1])
    /\ feat.dataset[2].nk = OtherValueError
    /\ feat.error = OtherValueError
    /\ Succeeds(feat.dataset[3])

\* the fraction of the consecutive differences of rri that exceed 50 ms
FractionOver50(rri) ==
    RDiv(Rat(CountOver50(rri), 1), Rat(Len(NpDiff(rri)), 1))

\* C5: Irregularity_index is the number of consecutive RR-interval
\* differences above 50 ms in absolute value over the number of such
\* differences; R-peaks [100, 300, 520, 700] at fs = 200 give RR intervals
\* [1000, 1100, 900] ms, RR_mean 1000 and Irregularity_index 2/2 = 1.
C5_IrregularityFraction ==
    ( /\ feat.i > 1
      /\ feat.pc = "loop"
      /\ Succeeds(feat.dataset[feat.i - 1])
      /\ Len(feat.dataset[feat.i - 1].peaks) >= 3 )
        => LET rec == feat.dataset[feat.i - 1]
               rri == RRIntervals(rec.peaks, rec.fs)
               row == feat.features[Len(feat.features)]
           IN  /\ row.RR_mean = NpMean(rri)
               /\ row.Irregularity_index = FractionOver50(rri)
               /\ (rec.peaks = <<100, 300, 520, 700>> /\ rec.fs = 200) =>
                      /\ rri = <<<<1000, 1>>, <<1100, 1>>, <<900, 1>>>>
                      /\ row.RR_mean = <<1000, 1>>
                      /\ row.Irregularity_index = <<1, 1>>

-----------------------------------------------------------------------------
(* ECGPreprocessor.transform                                               *)
(* load_ecg and parse_header are the data loader's: a data_dict carries    *)
(* the signal the one yields and the sample rate the other reads.          *)
(* processed_data holds references to the data_dicts of the dataset, here  *)
(* their indices. log is the history of the stages run on each recording.  *)

\* BandpassFilter.__init__'s defaults (line 11)
DefaultHighCut == 40

DefaultLowCut == <<1, 2>>

\* segment_ecg run to its return; pc stays "loop" when the loop has not
\* ended after fuel passes
RECURSIVE SegLoop(_, _)
SegLoop(st, fuel) ==
    IF ~SegCond(st.end, st.signal) THEN [st EXCEPT !.pc = "returned"]
    ELSE IF fuel = 0 THEN st
    ELSE SegLoop(SegBody(st), fuel - 1)

segment_ecg(signal, window_size, overlap_size) ==
    SegLoop(SegEnter(signal, window_size, overlap_size), MaxSegs)

PreSamples == {<<-1, 1>>, <<1, 1>>}

\* the filtered signal has the shape of the input; its samples are SciPy's
FilteredSignals(X) == SeqsOf(PreSamples, Len(X), Len(X))

\* BandpassFilter(fs).fit_transform(X) on a 1-D signal
BandpassStage(X, fs) ==
    IF BandpassFilter_fs_too_low(fs, DefaultHighCut)
    THEN {[status |-> "raised", error |-> FsTooLowError, value |-> <<>>]}
    ELSE UNION {
        IF o = "raise"
        THEN {[status |-> "raised", error |-> ButterError, value |-> <<>>]}
        ELSE UNION {
            IF e = NoError
            THEN {[status |-> "returned", error |-> NoError, value |-> v] :
                     v \in FilteredSignals(X)}
            ELSE {[status |-> "raised", error |-> e, value |-> <<>>]} :
            e \in ApplyOutcomes(1, TRUE, Len(X))} :
        o \in ButterOutcomes(NyquistRelative(DefaultLowCut, fs),
                             NyquistRelative(Rat(DefaultHighCut, 1), fs))}

\* SegmentECG(window_size, overlap_size).fit_transform(X)
SegmentStage(X, window_size, overlap_size) ==
    LET st == segment_ecg(X, window_size, overlap_size)
    IN  IF st.pc = "returned"
        THEN {[status |-> "returned", error |-> NoError, value |-> st.segments]}
        ELSE {[status |-> "looping", error |-> NoError, value |-> <<>>]}

\* what one step of the pipeline may do on X
StageOutcomes(step, X, fs, window_size, overlap_size) ==
    IF step = "bandpass_filter" THEN BandpassStage(X, fs)
    ELSE IF step = "normalize_ecg" THEN {normalize_ecg(X)}
    ELSE SegmentStage(X, window_size, overlap_size)

\* mutant: the signal is normalised before it is filtered
PipelineStepsSwapped == <<"normalize_ecg", "bandpass_filter", "segment_ecg">>

\* the steps of the Pipeline of lines 158-162
PipelineSteps == <<"bandpass_filter", "normalize_ecg", "segment_ecg">>

\* mutant: a failing recording is skipped and the batch goes on
StageRaisedSkip(p, e) ==
    [p EXCEPT !.pc = "loop", !.i = @ + 1, !.step = 0]

\* an exception of line 164 is not caught: it leaves transform
StageRaised(p, e) == [p EXCEPT !.pc = "raised", !.error = e]

\* what load_ecg yields: for each length a constant signal and a ramp
RawSignals ==
    UNION {{[t \in 1..n |-> <<2, 1>>], [t \in 1..n |-> Rat(t, 1)]} :
              n \in 0..MaxPreLen}

DataDicts ==
    {[ecg |-> x, fs |-> fs, has_segmented_ecg |-> FALSE, segmented_ecg |-> <<>>] :
        x \in RawSignals, fs \in {80, 300}}

PreConfigs == {<<1, 0>>, <<2, 0>>, <<2, 1>>, <<1, 1>>}

PreStart ==
    \E dataset \in SeqsOf(DataDicts, 0, MaxPreBatch) :
    \E c \in PreConfigs :
        pre = [pc |-> "loop", window_size |-> c[1], overlap_size |-> c[2],
               dataset |-> dataset, i |-> 1, step |-> 0, X |-> <<>>,
               loaded |-> {}, processed_data |-> <<>>, error |-> NoError,
               log |-> [k \in 1..Len(dataset) |-> <<>>]]

\* lines 153-162: the next data_dict is taken and its signal and header read
PreLoad ==
    /\ pre.pc = "loop"
    /\ pre.step = 0
    /\ pre.i <= Len(pre.dataset)
    /\ pre' = [pre EXCEPT !.step = 1,
                          !.X = pre.dataset[pre.i].ecg,
                          !.loaded = @ \cup {pre.i}]
    /\ UNCHANGED <<seg, norm, filt, feat>>

\* line 164: the next step of pipeline.fit_transform
PreStage ==
    /\ pre.pc = "loop"
    /\ pre.step \in 1..Len(PipelineSteps)
    /\ \E r \in StageOutcomes(PipelineSteps[pre.step], pre.X,
                              pre.dataset[pre.i].fs, pre.window_size,
                              pre.overlap_size) :
           pre' = IF r.status = "raised" THEN StageRaised(pre, r.error)
                  ELSE IF r.status = "looping" THEN [pre EXCEPT !.pc = "looping"]
                  ELSE [pre EXCEPT
                           !.step = @ + 1,
                           !.X = r.value,
                           !.log[pre.i] =
                               Append(@, [step |-> PipelineSteps[pre.step],
                                          input |-> pre.X,
                                          output |-> r.value])]
    /\ UNCHANGED <<seg, norm, filt, feat>>

\* lines 164-166: the result is bound, attached and the data_dict appended
PreAttach ==
    /\ pre.pc = "loop"
    /\ pre.step = Len(PipelineSteps) + 1
    /\ pre' = [pre EXCEPT !.dataset[pre.i].has_segmented_ecg = TRUE,
                          !.dataset[pre.i].segmented_ecg = pre.X,
                          !.processed_data = Append(@, pre.i),
                          !.i = @ + 1,
                          !.step = 0,
                          !.X = <<>>]
    /\ UNCHANGED <<seg, norm, filt, feat>>

\* line 168
PreReturn ==
    /\ pre.pc = "loop"
    /\ pre.step = 0
    /\ pre.i > Len(pre.dataset)
    /\ pre' = [pre EXCEPT !.pc = "returned"]
    /\ UNCHANGED <<seg, norm, filt, feat>>

PreNext == PreLoad \/ PreStage \/ PreAttach \/ PreReturn

PreInit == PreStart /\ seg = Idle /\ norm = Idle /\ filt = Idle /\ feat = Idle

SpecPre == PreInit /\ [][PreNext]_vars

-----------------------------------------------------------------------------
(* Claims about ECGPreprocessor.transform, checked under SpecPre *)

StageOrder == <<"bandpass_filter", "normalize_ecg", "segment_ecg">>

\* C8: on every recording the stages run once each in the order bandpass
\* filter, normalise, segment, each on the output of the one before; the
\* segments are attached to that recording's own record as segmented_ecg,
\* and the returned list holds the records of the input, in input order.
C8_StagesInOrder ==
    /\ \A k \in 1..Len(pre.dataset) :
           LET lg == pre.log[k]
           IN  /\ Len(lg) <= Len(StageOrder)
               /\ \A n \in 1..Len(lg) :
                      /\ lg[n].step = StageOrder[n]
                      /\ lg[n].input = IF n = 1 THEN pre.dataset[k].ecg
                                       ELSE lg[n - 1].output
               /\ Len(lg) >= 2 => Len(lg[2].output) = Len(pre.dataset[k].ecg)
               /\ pre.dataset[k].has_segmented_ecg <=> k < pre.i
               /\ pre.dataset[k].has_segmented_ecg =>
                      /\ Len(lg) = Len(StageOrder)
                      /\ pre.dataset[k].segmented_ecg = lg[Len(lg)].output
    /\ pre.processed_data = [k \in 1..(pre.i - 1) |-> k]
    /\ pre.pc = "returned" => Len(pre.processed_data) = Len(pre.dataset)

\* two different recordings went through the three stages and were returned
C8_Witness ==
    /\ pre.pc = "returned"
    /\ pre.processed_data = <<1, 2>>
    /\ pre.dataset[1].ecg # pre.dataset[2].ecg
    /\ Len(pre.dataset[1].segmented_ecg) >= 2
    /\ pre.log[1][1].output # pre.log[1][1].input
    /\ pre.log[1][2].output # pre.log[1][2].input
    /\ AllFinite(pre.log[1][2].output)

\* C9: a stage that fails on recording k ends transform with that error:
\* no later recording is loaded, recording k gets no segmented_ecg and no
\* list is returned. (A sample rate of at most 2 * 40 Hz fails the filter.)
C9_ErrorPropagates ==
    /\ pre.pc = "raised" =>
           /\ pre.error # NoError
           /\ pre.i <= Len(pre.dataset)
           /\ pre.loaded = 1..pre.i
           /\ pre.processed_data = [k \in 1..(pre.i - 1) |-> k]
           /\ ~pre.dataset[pre.i].has_segmented_ecg
           /\ ~ENABLED PreNext
    /\ \A k \in 1..Len(pre.dataset) :
           pre.dataset[k].fs <= 2 * DefaultHighCut =>
               /\ pre.i <= k
               /\ pre.loaded \subseteq 1..k
               /\ ~pre.dataset[k].has_segmented_ecg
               /\ pre.pc # "returned"

\* the filter failed on the first of two recordings
C9_Witness ==
    /\ pre.pc = "raised"
    /\ pre.i = 1
    /\ Len(pre.dataset) = 2
    /\ pre.loaded = {1}
    /\ pre.dataset[1].ecg # <<>>
    /\ pre.dataset[2].ecg # <<>>
    /\ pre.error \in {FsTooLowError, PadlenError}

=============================================================================
